---- MODULE Spec2Model ----
(***************************************************************************)
(* A model of toytracer-rs: ray/sphere intersection (hit.rs), the slice    *)
(* aggregate (hit.rs), material scattering (material.rs), the recursive    *)
(* colour estimator and the per-pixel driver (main.rs).                    *)
(*                                                                         *)
(* f64 is modelled as fixed point: the integer n stands for n / Scale.     *)
(* Every product and quotient is rounded to that grid, as f64 rounds to    *)
(* its own; a computation whose operands and results are all on the grid   *)
(* is exact.  NaN and the infinities are outside the model, except that    *)
(* f64::INFINITY, which the code only ever compares with, is INFINITY.     *)
(***************************************************************************)
EXTENDS Integers, Sequences, FiniteSets, TLC

VARIABLES
    pc,          \* the position of the program
    world,       \* the scene: a sequence of spheres
    ray,         \* the ray of the query in hand
    t_min,       \* the bounds of the query
    t_max,
    sphere_hits, \* what Sphere::hit returned for each sphere of world, alone
    latest_hit,  \* what the slice-level hit returned
    rnd,         \* the random draws of the step in hand
    scatter_out, \* what Material::scatter returned
    max_depth,   \* the depth ray_color was first called with
    depth,       \* the depth argument of the ray_color invocation in hand
    frames,      \* the ray_color invocations waiting for their recursive call
    sub,         \* the recursive call that returned last: its ray and value
    color,       \* the value the ray_color invocation in hand returns
    hit_calls,   \* how many times ray_color has asked the scene for a hit
    image_width,
    image_height,
    rows,        \* the rows (j) the outer iterator of main has yet to yield
    cols,        \* the columns (i) the inner iterator has yet to yield
    img,         \* the colours collected, each with the pixel and samples it is of
    ppm,         \* what to_ppm has written
    camera,      \* the camera main has built
    pixel,       \* the pixel in hand: the samples taken and their sum
    get_ray_call \* the latest call of Camera::get_ray: its arguments

vars == <<pc, world, ray, t_min, t_max, sphere_hits, latest_hit, rnd, scatter_out,
          max_depth, depth, frames, sub, color, hit_calls,
          image_width, image_height, rows, cols, img, ppm,
          camera, pixel, get_ray_call>>

sampleVars == <<camera, pixel, get_ray_call>>

\* The variables of the loop over the samples before main reaches it
SampleIdle ==
    /\ camera = <<>>
    /\ pixel = [samples |-> <<>>, color |-> <<0, 0, 0>>]
    /\ get_ray_call = [some |-> FALSE]

renderVars == <<image_width, image_height, rows, cols, img, ppm, sampleVars>>

\* The variables of main before it renders
RenderIdle ==
    /\ image_width = 0
    /\ image_height = 0
    /\ rows = <<>>
    /\ cols = <<>>
    /\ img = <<>>
    /\ ppm = <<>>
    /\ SampleIdle

scatterVars == <<rnd, scatter_out>>

colorVars == <<max_depth, depth, frames, sub, color, hit_calls>>

\* The variables of ray_color before it is called
ColorIdle ==
    /\ max_depth = 0
    /\ depth = 0
    /\ frames = <<>>
    /\ sub = [some |-> FALSE]
    /\ color = <<0, 0, 0>>
    /\ hit_calls = 0

(***************************************************************************)
(* f64                                                                     *)
(***************************************************************************)
Scale == 1000

\* f64::INFINITY: larger than every value the model computes.
INFINITY == 2000000000

F(n) == n * Scale

Mul(a, b) == (a * b) \div Scale

Div(a, b) == (a * Scale) \div b

Abs(a) == IF a < 0 THEN -a ELSE a

Min(a, b) == IF b < a THEN b ELSE a

\* The largest s in q[2]..q[3] with s * s <= q[1], by bisection
SqrtIter[q \in Nat \X Nat \X Nat] ==
    IF q[2] >= q[3] THEN q[2]
    ELSE LET mid == (q[2] + q[3] + 1) \div 2
         IN  IF mid * mid <= q[1] THEN SqrtIter[<<q[1], mid, q[3]>>]
                                  ELSE SqrtIter[<<q[1], q[2], mid - 1>>]

\* f64::sqrt, rounded to the grid.  The square root of a negative number is
\* NaN: no value of the model, so the evaluation fails rather than continue.
Sqrt(a) ==
    IF a >= 0 THEN SqrtIter[<<a * Scale, 0, 46340>>]
              ELSE CHOOSE n \in {} : TRUE

RECURSIVE Powi(_, _)
Powi(a, n) == IF n = 0 THEN Scale ELSE Mul(a, Powi(a, n - 1))

Clamp(a, lo, hi) == IF a < lo THEN lo ELSE IF a > hi THEN hi ELSE a

(***************************************************************************)
(* vec3.rs                                                                 *)
(***************************************************************************)
Vec3(x, y, z) == <<x, y, z>>

VAdd(a, b) == <<a[1] + b[1], a[2] + b[2], a[3] + b[3]>>

VSub(a, b) == <<a[1] - b[1], a[2] - b[2], a[3] - b[3]>>

VNeg(a) == <<-a[1], -a[2], -a[3]>>

\* Vec3 * Vec3, component-wise
VMul(a, b) == <<Mul(a[1], b[1]), Mul(a[2], b[2]), Mul(a[3], b[3])>>

\* f64 * Vec3 and Vec3 * f64
VScale(s, a) == <<Mul(a[1], s), Mul(a[2], s), Mul(a[3], s)>>

\* Vec3 / f64 is self * (1.0 / rhs)
VDiv(a, s) == VScale(Div(Scale, s), a)

dot(a, b) == Mul(a[1], b[1]) + Mul(a[2], b[2]) + Mul(a[3], b[3])

cross(a, b) ==
    << Mul(a[2], b[3]) - Mul(a[3], b[2]),
       Mul(a[3], b[1]) - Mul(a[1], b[3]),
       Mul(a[1], b[2]) - Mul(a[2], b[1]) >>

length_squared(a) == Mul(a[1], a[1]) + Mul(a[2], a[2]) + Mul(a[3], a[3])

length(a) == Sqrt(length_squared(a))

unit(a) == VDiv(a, length(a))

\* s = 1e-8 lies below the grid: the smallest positive value stands for it.
NearZeroS == 1

near_zero(a) == Abs(a[1]) < NearZeroS /\ Abs(a[2]) < NearZeroS /\ Abs(a[3]) < NearZeroS

reflect(v, normal) == VSub(v, VScale(Mul(F(2), dot(v, normal)), normal))

refract(v, normal, etai_over_etat) ==
    LET cos_theta == Min(dot(VNeg(v), normal), F(1))
        r_out_perp == VScale(etai_over_etat, VAdd(v, VScale(cos_theta, normal)))
        r_out_parallel ==
            VScale(-Sqrt(F(1) - length_squared(r_out_perp)), normal)
    IN  VAdd(r_out_perp, r_out_parallel)

(***************************************************************************)
(* material.rs: the constructors                                           *)
(***************************************************************************)
new_lambertian(albedo) == [kind |-> "Lambertian", albedo |-> albedo]

new_metal(albedo, fuzz) == [kind |-> "Metal", albedo |-> albedo, fuzz |-> fuzz]

new_dielectric(index_of_refraction) ==
    [kind |-> "Dielectric", index_of_refraction |-> index_of_refraction]

(***************************************************************************)
(* ray.rs                                                                  *)
(***************************************************************************)
Ray(origin, direction) == [origin |-> origin, direction |-> direction]

at(r, t) == VAdd(r.origin, VScale(t, r.direction))

(***************************************************************************)
(* hit.rs                                                                  *)
(***************************************************************************)
None == [some |-> FALSE]

Some(v) == [some |-> TRUE, val |-> v]

Sphere(center, radius, material) ==
    [center |-> center, radius |-> radius, mat |-> material]

\* A face_normal that never turns the normal round.
face_normal_outward(r, outward_normal) ==
    <<dot(r.direction, outward_normal) < 0, outward_normal>>

\* HitRecord::face_normal: <<front_face, normal>>
face_normal(r, outward_normal) ==
    LET front_face == dot(r.direction, outward_normal) < 0
    IN  <<front_face, IF front_face THEN outward_normal ELSE VNeg(outward_normal)>>

\* The quadratic of Sphere::hit
QuadA(sp, r) == length_squared(r.direction)

QuadHalfB(sp, r) == dot(VSub(r.origin, sp.center), r.direction)

QuadC(sp, r) ==
    length_squared(VSub(r.origin, sp.center)) - Mul(sp.radius, sp.radius)

Discriminant(sp, r) ==
    Mul(QuadHalfB(sp, r), QuadHalfB(sp, r)) - Mul(QuadA(sp, r), QuadC(sp, r))

\* A choice of the root that takes the larger root without testing it.
RootUnchecked(a, half_b, sqrt_d, tmin, tmax) ==
    LET root0 == Div(-half_b - sqrt_d, a)
        root1 == Div(-half_b + sqrt_d, a)
    IN  IF root0 < tmin \/ tmax < root0 THEN Some(root1) ELSE Some(root0)

\* A choice of the root that never tries the larger root.
RootSmallerOnly(a, half_b, sqrt_d, tmin, tmax) ==
    LET root0 == Div(-half_b - sqrt_d, a)
    IN  IF root0 < tmin \/ tmax < root0 THEN None ELSE Some(root0)

\* Sphere::hit, the choice of the root (lines 99-105)
Root(a, half_b, sqrt_d, tmin, tmax) ==
    LET root0 == Div(-half_b - sqrt_d, a)
        root1 == Div(-half_b + sqrt_d, a)
    IN  IF root0 < tmin \/ tmax < root0
        THEN IF root1 < tmin \/ tmax < root1 THEN None ELSE Some(root1)
        ELSE Some(root0)

\* impl Hittable for Sphere: hit
SphereHit(sp, r, tmin, tmax) ==
    LET a == QuadA(sp, r)
        half_b == QuadHalfB(sp, r)
        discriminant == Discriminant(sp, r)
    IN  IF discriminant < 0 THEN None
        ELSE
        LET root == Root(a, half_b, Sqrt(discriminant), tmin, tmax)
        IN  IF ~root.some THEN None
            ELSE
            LET t == root.val
                point == at(r, t)
                fn == face_normal(r, VDiv(VSub(point, sp.center), sp.radius))
            IN  Some([point |-> point, normal |-> fn[2], t |-> t,
                      front_face |-> fn[1], mat |-> sp.mat])

\* A scan that tests every surface against the original t_max.
RECURSIVE SliceLoopNoShrink(_, _, _, _, _, _)
SliceLoopNoShrink(hs, k, r, tmin, latest, closest_so_far) ==
    IF k > Len(hs) THEN latest
    ELSE LET h == SphereHit(hs[k], r, tmin, closest_so_far)
         IN  IF h.some THEN SliceLoopNoShrink(hs, k + 1, r, tmin, h, closest_so_far)
                       ELSE SliceLoopNoShrink(hs, k + 1, r, tmin, latest, closest_so_far)

\* impl Hittable for &[H]: hit.  The loop state is <<latest_hit, closest_so_far>>.
RECURSIVE SliceLoop(_, _, _, _, _, _)
SliceLoop(hs, k, r, tmin, latest, closest_so_far) ==
    IF k > Len(hs) THEN latest
    ELSE LET h == SphereHit(hs[k], r, tmin, closest_so_far)
         IN  IF h.some THEN SliceLoop(hs, k + 1, r, tmin, h, h.val.t)
                       ELSE SliceLoop(hs, k + 1, r, tmin, latest, closest_so_far)

SliceHit(hs, r, tmin, tmax) == SliceLoop(hs, 1, r, tmin, None, tmax)

(***************************************************************************)
(* The random source.  A draw of rng.gen_range is a choice from a few      *)
(* values of the range.                                                    *)
(***************************************************************************)
\* gen_range(-1.0..1.0)
SignedDraws == {-1000, -500, 500}

\* gen_range(0.0..1.0)
UniformDraws == {0, 250, 500, 999}

\* Vec3::random_range(-1.0..1.0)
random_range == {Vec3(x, y, z) : x \in SignedDraws, y \in SignedDraws, z \in SignedDraws}

\* Vec3::random_in_unit_sphere: what the loop can break with
random_in_unit_sphere == {p \in random_range : length_squared(p) < F(1)}

\* Vec3::random_unit_vector
random_unit_vector == {unit(p) : p \in random_in_unit_sphere}

NoDraw == [unit_vector |-> Vec3(0, 0, 0), in_unit_sphere |-> Vec3(0, 0, 0), uniform |-> 0]

(***************************************************************************)
(* material.rs: scatter                                                    *)
(***************************************************************************)
Scattered(attenuation, scattered) ==
    [attenuation |-> attenuation, scattered |-> scattered]

\* Material::reflectance
reflectance(cosine, ref_idx) ==
    LET r0 == Div(F(1) - ref_idx, F(1) + ref_idx)
        r0sq == Mul(r0, r0)
    IN  r0sq + Mul(F(1) - r0sq, Powi(F(1) - cosine, 5))

\* The direction of the ray a Metal scatters, before the test that absorbs it
MetalDirection(m, r, h, d) ==
    VAdd(reflect(unit(r.direction), h.normal), VScale(m.fuzz, d.in_unit_sphere))

\* A Metal that absorbs only directions strictly into the surface.
ScatterMetalStrict(m, r, h, d) ==
    LET scattered == Ray(h.point, MetalDirection(m, r, h, d))
    IN  IF dot(scattered.direction, h.normal) < 0 THEN None
        ELSE Some(Scattered(m.albedo, scattered))

ScatterMetal(m, r, h, d) ==
    LET scattered == Ray(h.point, MetalDirection(m, r, h, d))
    IN  IF dot(scattered.direction, h.normal) <= 0 THEN None
        ELSE Some(Scattered(m.albedo, scattered))

ScatterLambertian(m, r, h, d) ==
    LET scatter_direction == VAdd(h.normal, d.unit_vector)
        direction == IF near_zero(scatter_direction) THEN h.normal
                                                     ELSE scatter_direction
    IN  Some(Scattered(m.albedo, Ray(h.point, direction)))

ScatterDielectric(m, r, h, d) ==
    LET refraction_ratio == IF h.front_face THEN Div(F(1), m.index_of_refraction)
                                            ELSE m.index_of_refraction
        unit_direction == unit(r.direction)
        cos_theta == Min(dot(VNeg(unit_direction), h.normal), F(1))
        sin_theta == Sqrt(F(1) - Mul(cos_theta, cos_theta))
        direction ==
            IF \/ Mul(refraction_ratio, sin_theta) > F(1)
               \/ reflectance(cos_theta, refraction_ratio) > d.uniform
            THEN reflect(unit_direction, h.normal)
            ELSE refract(unit_direction, h.normal, refraction_ratio)
    IN  Some(Scattered(Vec3(F(1), F(1), F(1)), Ray(h.point, direction)))

\* Material::scatter, with the draws of the random source it makes
Scatter(m, r, h, d) ==
    CASE m.kind = "Lambertian" -> ScatterLambertian(m, r, h, d)
      [] m.kind = "Metal" -> ScatterMetal(m, r, h, d)
      [] m.kind = "Dielectric" -> ScatterDielectric(m, r, h, d)

\* The draws scatter makes for a material: one kind of draw each
DrawsOf(m) ==
    CASE m.kind = "Lambertian" ->
           {[NoDraw EXCEPT !.unit_vector = u] : u \in random_unit_vector}
      [] m.kind = "Metal" ->
           {[NoDraw EXCEPT !.in_unit_sphere = p] : p \in random_in_unit_sphere}
      [] m.kind = "Dielectric" ->
           {[NoDraw EXCEPT !.uniform = x] : x \in UniformDraws}

(***************************************************************************)
(* The intersection queries: Sphere::hit on each sphere of a scene alone,  *)
(* then the slice-level hit on the whole scene.                            *)
(***************************************************************************)
MaxSpheres == 2

Grey == Vec3(500, 500, 500)

HitSpheres ==
    { Sphere(Vec3(0, 0, -1000), 500, new_lambertian(Grey)),
      Sphere(Vec3(0, 0, 0), 5000, new_metal(Grey, 0)),
      Sphere(Vec3(0, 0, -3000), 1000, new_dielectric(1500)),
      Sphere(Vec3(3000, 0, 5000), 1000, new_lambertian(Grey)) }

HitRays ==
    { Ray(Vec3(0, 0, 0), Vec3(0, 0, -1000)),
      Ray(Vec3(0, 0, 0), Vec3(0, 0, -2000)),
      Ray(Vec3(0, 0, 0), Vec3(600, 0, -800)),
      Ray(Vec3(3000, 0, 10000), Vec3(0, 0, -1000)),
      Ray(Vec3(5000, 0, 10000), Vec3(0, 0, -1000)),
      Ray(Vec3(0, 0, 4000), Vec3(0, 0, 1000)),
      Ray(Vec3(0, 0, -10000), Vec3(0, 0, 1000)) }

HitTimes == {0, 1, 500, 1000, 2000, 5000, 6000, 14000, INFINITY}

RECURSIVE SeqsUpTo(_, _)
SeqsUpTo(S, n) ==
    IF n = 0 THEN {<<>>}
    ELSE LET shorter == SeqsUpTo(S, n - 1)
         IN  shorter \cup {Append(q, x) : q \in shorter, x \in S}

\* The queries whose arithmetic is exact on the grid: the discriminant is
\* negative, or it is a square and both roots are on the grid.
ExactQuery(sp, r) ==
    LET a == QuadA(sp, r)
        half_b == QuadHalfB(sp, r)
        d == Discriminant(sp, r)
    IN  IF d < 0 THEN TRUE
        ELSE /\ Sqrt(d) * Sqrt(d) = d * Scale
             /\ ((-half_b - Sqrt(d)) * Scale) % a = 0
             /\ ((-half_b + Sqrt(d)) * Scale) % a = 0

HitInit ==
    /\ pc = "query"
    /\ world \in SeqsUpTo(HitSpheres, MaxSpheres)
    /\ ray \in HitRays
    /\ t_min \in HitTimes \ {INFINITY}
    /\ t_max \in HitTimes
    /\ t_min <= t_max
    /\ \A k \in 1..Len(world) : ExactQuery(world[k], ray)
    /\ sphere_hits = <<>>
    /\ latest_hit = None
    /\ rnd = NoDraw
    /\ scatter_out = None
    /\ ColorIdle
    /\ RenderIdle

EachSphereHit ==
    /\ pc = "query"
    /\ sphere_hits' = [k \in 1..Len(world) |-> SphereHit(world[k], ray, t_min, t_max)]
    /\ pc' = "each_done"
    /\ UNCHANGED <<world, ray, t_min, t_max, latest_hit, scatterVars, colorVars, renderVars>>

WorldHit ==
    /\ pc = "each_done"
    /\ latest_hit' = SliceHit(world, ray, t_min, t_max)
    /\ pc' = "hit_done"
    /\ UNCHANGED <<world, ray, t_min, t_max, sphere_hits, scatterVars, colorVars, renderVars>>

HitNext == EachSphereHit \/ WorldHit

SpecHit == HitInit /\ [][HitNext]_vars

\* The spheres of the scene that report a hit when tested alone.
Hitters == {k \in 1..Len(world) : sphere_hits[k].some}

\* C1: the slice-level hit returns a hit iff some sphere, tested alone against
\* [t_min, t_max], reports one, and its t is the least t of those hits,
\* whatever the order of the spheres.
C1_SliceNearest ==
    pc = "hit_done" =>
        /\ latest_hit.some <=> Hitters # {}
        /\ latest_hit.some =>
              /\ \E k \in Hitters : sphere_hits[k].val.t = latest_hit.val.t
              /\ \A k \in Hitters : latest_hit.val.t <= sphere_hits[k].val.t

\* A scene where the nearer of two hit spheres comes first in the list.
C1_Witness ==
    /\ pc = "hit_done"
    /\ \E i, k \in Hitters :
          /\ i < k
          /\ sphere_hits[i].val.t < sphere_hits[k].val.t
          /\ latest_hit.some
          /\ latest_hit.val.t = sphere_hits[i].val.t

\* C2: a hit record of Sphere::hit has t_min <= t <= t_max, its point is
\* ray.at(t), and the point is at distance radius from the center.
C2_HitOnSphere ==
    \A k \in 1..Len(sphere_hits) :
        sphere_hits[k].some =>
            LET h == sphere_hits[k].val
                sp == world[k]
            IN  /\ t_min <= h.t
                /\ h.t <= t_max
                /\ h.point = at(ray, h.t)
                /\ length_squared(VSub(h.point, sp.center))
                      = Mul(sp.radius, sp.radius)

\* A hit off the axes, between bounds that are both finite and positive.
C2_Witness ==
    /\ t_min > 0
    /\ t_max < INFINITY
    /\ \E k \in 1..Len(sphere_hits) :
          /\ sphere_hits[k].some
          /\ sphere_hits[k].val.point[1] # 0
          /\ sphere_hits[k].val.point[3] # 0

\* The outward normal of a hit record: (point - center) / radius.
Outward(k) == VDiv(VSub(sphere_hits[k].val.point, world[k].center), world[k].radius)

\* C3: the stored normal of a hit record never points along the ray
\* (direction . normal <= 0); front_face is true exactly when
\* direction . outward_normal < 0, and the stored normal is the outward
\* normal when front_face, its negation otherwise.
C3_NormalAgainstRay ==
    \A k \in 1..Len(sphere_hits) :
        sphere_hits[k].some =>
            LET h == sphere_hits[k].val
            IN  /\ dot(ray.direction, h.normal) <= 0
                /\ h.front_face <=> dot(ray.direction, Outward(k)) < 0
                /\ h.normal = IF h.front_face THEN Outward(k) ELSE VNeg(Outward(k))

\* A hit from inside a sphere: the outward normal is turned round.
C3_Witness ==
    \E k \in 1..Len(sphere_hits) :
        /\ sphere_hits[k].some
        /\ ~sphere_hits[k].val.front_face
        /\ dot(ray.direction, sphere_hits[k].val.normal) < 0
        /\ sphere_hits[k].val.normal = VNeg(Outward(k))

\* The quadratic a t^2 + 2 half_b t + c at x, in units of 1 / Scale^2, exact
\* (a is a whole number in every query of HitInit, so a x is on the grid).
QuadAt(sp, r, x) ==
    (Mul(QuadA(sp, r), x) + 2 * QuadHalfB(sp, r)) * x + QuadC(sp, r) * Scale

\* a x + half_b: negative left of the vertex of the parabola, positive right.
Slope(sp, r, x) == Mul(QuadA(sp, r), x) + QuadHalfB(sp, r)

\* Whether the quadratic has a root in [lo, hi], decided from its signs alone:
\* it has real roots, and neither are both left of lo, nor both right of hi,
\* nor do they enclose [lo, hi].
RootIn(sp, r, lo, hi) ==
    /\ Discriminant(sp, r) >= 0
    /\ ~(QuadAt(sp, r, lo) > 0 /\ Slope(sp, r, lo) > 0)
    /\ hi < INFINITY =>
          /\ ~(QuadAt(sp, r, hi) > 0 /\ Slope(sp, r, hi) < 0)
          /\ ~(QuadAt(sp, r, lo) < 0 /\ QuadAt(sp, r, hi) < 0)

\* C10: Sphere::hit returns nothing when the discriminant is negative;
\* a returned t is a root of the quadratic in [t_min, t_max] with no smaller
\* root in [t_min, t_max] (the larger root is returned only when the smaller
\* lies left of t_min); nothing is returned only when no root is in
\* [t_min, t_max].
C10_SmallestRootInBounds ==
    \A k \in 1..Len(sphere_hits) :
        LET sp == world[k]
            h == sphere_hits[k]
        IN  /\ Discriminant(sp, ray) < 0 => ~h.some
            /\ h.some =>
                  /\ QuadAt(sp, ray, h.val.t) = 0
                  /\ t_min <= h.val.t /\ h.val.t <= t_max
                  /\ Slope(sp, ray, h.val.t) > 0 =>
                        QuadAt(sp, ray, t_min) < 0 \/ t_min = h.val.t
            /\ ~h.some => ~RootIn(sp, ray, t_min, t_max)

\* The larger of two distinct roots is returned: the smaller lies left of t_min.
C10_Witness ==
    \E k \in 1..Len(sphere_hits) :
        /\ sphere_hits[k].some
        /\ Slope(world[k], ray, sphere_hits[k].val.t) > 0
        /\ t_min > 0
        /\ t_max < INFINITY

(***************************************************************************)
(* Scattering: a material is constructed and given to a sphere, a ray hits *)
(* the sphere, and the material of the hit record scatters the ray.        *)
(***************************************************************************)
Red == Vec3(800, 200, 200)

\* The fuzz arguments given to new_metal
FuzzArgs == {-500, 0, 500, 1000, 2000}

NewMaterials ==
    {new_lambertian(Grey), new_lambertian(Red)}
        \cup {new_metal(Red, fuzz) : fuzz \in FuzzArgs}
        \cup {new_dielectric(ior) : ior \in {1000, 1500}}

ScatterShapes == {<<Vec3(0, 0, -1000), 500>>, <<Vec3(0, 0, 0), 5000>>}

ScatterRays ==
    HitRays \cup { Ray(Vec3(4000, 0, 0), Vec3(0, 0, -1000)),
                   Ray(Vec3(3000, 0, 0), Vec3(0, 0, -2000)),
                   Ray(Vec3(5770, 5770, 5770), Vec3(-1000, -1000, -1000)) }

ScatterInit ==
    /\ pc = "new"
    /\ world = <<>>
    /\ ray \in ScatterRays
    /\ t_min = 1
    /\ t_max = INFINITY
    /\ sphere_hits = <<>>
    /\ latest_hit = None
    /\ rnd = NoDraw
    /\ scatter_out = None
    /\ ColorIdle
    /\ RenderIdle

\* Material::new_*, Sphere::new
NewSphere ==
    /\ pc = "new"
    /\ \E m \in NewMaterials, shape \in ScatterShapes :
          world' = <<Sphere(shape[1], shape[2], m)>>
    /\ pc' = "built"
    /\ UNCHANGED <<ray, t_min, t_max, sphere_hits, latest_hit, scatterVars, colorVars, renderVars>>

\* world.hit(ray, t_min, t_max)
ScatterHit ==
    /\ pc = "built"
    /\ latest_hit' = SliceHit(world, ray, t_min, t_max)
    /\ pc' = IF latest_hit'.some THEN "hit" ELSE "miss"
    /\ UNCHANGED <<world, ray, t_min, t_max, sphere_hits, scatterVars, colorVars, renderVars>>

\* hr.mat().scatter(ray, hr)
MaterialScatter ==
    /\ pc = "hit"
    /\ \E d \in DrawsOf(latest_hit.val.mat) :
          /\ rnd' = d
          /\ scatter_out' = Scatter(latest_hit.val.mat, ray, latest_hit.val, d)
    /\ pc' = "scattered"
    /\ UNCHANGED <<world, ray, t_min, t_max, sphere_hits, latest_hit, colorVars, renderVars>>

ScatterNext == NewSphere \/ ScatterHit \/ MaterialScatter

SpecScatter == ScatterInit /\ [][ScatterNext]_vars

\* C6: every Metal has a fuzz in [0, 1], whatever fuzz it was constructed with.
C6_FuzzClamped ==
    \A k \in 1..Len(world) :
        world[k].mat.kind = "Metal" =>
            0 <= world[k].mat.fuzz /\ world[k].mat.fuzz <= F(1)

\* C7: scatter returns nothing exactly when the material is Metal and the
\* perturbed direction has direction . normal <= 0; what Lambertian and Metal
\* return has the albedo as attenuation, what Dielectric returns has (1, 1, 1).
C7_AbsorbsOnlyMetalInward ==
    pc = "scattered" =>
        LET h == latest_hit.val
            m == h.mat
        IN  /\ ~scatter_out.some <=>
                  /\ m.kind = "Metal"
                  /\ dot(MetalDirection(m, ray, h, rnd), h.normal) <= 0
            /\ scatter_out.some =>
                  scatter_out.val.attenuation =
                      IF m.kind = "Dielectric" THEN Vec3(F(1), F(1), F(1))
                                               ELSE m.albedo

\* A Metal absorbs a ray whose perturbed direction lies in the surface.
C7_Witness ==
    /\ pc = "scattered"
    /\ latest_hit.val.mat.kind = "Metal"
    /\ ~scatter_out.some
    /\ dot(MetalDirection(latest_hit.val.mat, ray, latest_hit.val, rnd),
           latest_hit.val.normal) = 0

(***************************************************************************)
(* main.rs: ray_color.  One invocation is entered (RayColorCall); on a hit *)
(* it draws a random unit vector (the loop of random_in_unit_sphere:       *)
(* RejectSample, AcceptSample) and calls itself; when the call returns it  *)
(* multiplies what it got by 0.5 and returns (RayColorReturn).             *)
(***************************************************************************)
MaxDepth == 2

Black == Vec3(0, 0, 0)

White == Vec3(F(1), F(1), F(1))

SkyBlue == Vec3(500, 700, F(1))

\* ray_color, the else branch (lines 60-64): the background gradient
Background(r) ==
    LET unit_direction == unit(r.direction)
        t == Mul(500, unit_direction[2] + F(1))
    IN  VAdd(VScale(F(1) - t, White), VScale(t, SkyBlue))

\* The scenes ray_color is called on: the small sphere of main, and a ground
\* sphere below it
ColorWorlds ==
    { <<>>,
      << Sphere(Vec3(0, 0, -1000), 500, new_lambertian(Red)),
         Sphere(Vec3(0, -10500, -1000), 10000, new_metal(Grey, 0)) >> }

ColorRays ==
    { Ray(Vec3(0, 0, 0), Vec3(0, 0, -1000)),
      Ray(Vec3(0, 0, 0), Vec3(0, -1000, -1000)),
      Ray(Vec3(0, 0, 0), Vec3(0, 1000, 0)) }

ColorInit ==
    /\ pc = "call"
    /\ world \in ColorWorlds
    /\ ray \in ColorRays
    /\ t_min = 1
    /\ t_max = INFINITY
    /\ sphere_hits = <<>>
    /\ latest_hit = None
    /\ rnd = NoDraw
    /\ scatter_out = None
    /\ max_depth \in 0..MaxDepth
    /\ depth = max_depth
    /\ frames = <<>>
    /\ sub = [some |-> FALSE]
    /\ color = Black
    /\ hit_calls = 0
    /\ RenderIdle

\* A ray_color that asks the scene for a hit before it tests the depth.
RayColorCallHitFirst ==
    /\ pc = "call"
    /\ latest_hit' = SliceHit(world, ray, t_min, t_max)
    /\ hit_calls' = hit_calls + 1
    /\ IF depth = 0
       THEN pc' = "return" /\ color' = Black
       ELSE IF latest_hit'.some
            THEN pc' = "sample" /\ color' = color
            ELSE pc' = "return" /\ color' = Background(ray)
    /\ sub' = [some |-> FALSE]
    /\ UNCHANGED <<world, ray, t_min, t_max, sphere_hits, scatterVars,
                   max_depth, depth, frames, renderVars>>

\* ray_color, lines 49-53 and 60-64: the depth test, the query, the miss
RayColorCall ==
    /\ pc = "call"
    /\ IF depth = 0
       THEN /\ color' = Black
            /\ pc' = "return"
            /\ UNCHANGED <<latest_hit, hit_calls>>
       ELSE /\ latest_hit' = SliceHit(world, ray, t_min, t_max)
            /\ hit_calls' = hit_calls + 1
            /\ IF latest_hit'.some
               THEN pc' = "sample" /\ color' = color
               ELSE pc' = "return" /\ color' = Background(ray)
    /\ sub' = [some |-> FALSE]
    /\ UNCHANGED <<world, ray, t_min, t_max, sphere_hits, scatterVars,
                   max_depth, depth, frames, renderVars>>

\* Vec3::random_in_unit_sphere: a draw outside the unit sphere, the loop goes on
RejectSample ==
    /\ pc = "sample"
    /\ \E p \in random_range :
          /\ ~(length_squared(p) < F(1))
          /\ rnd' = [NoDraw EXCEPT !.in_unit_sphere = p]
    /\ UNCHANGED <<pc, world, ray, t_min, t_max, sphere_hits, latest_hit,
                   scatter_out, colorVars, renderVars>>

\* A ray_color that calls itself with the depth it was given.
AcceptSampleSameDepth ==
    /\ pc = "sample"
    /\ \E p \in random_in_unit_sphere :
          LET point == latest_hit.val.point
              target == VAdd(VAdd(point, latest_hit.val.normal), unit(p))
          IN  /\ length_squared(VSub(target, point)) # 0
              /\ frames' = Append(frames, [ray |-> ray, depth |-> depth,
                                           hr |-> latest_hit])
              /\ ray' = Ray(point, VSub(target, point))
              /\ depth' = depth
    /\ rnd' = NoDraw
    /\ pc' = "call"
    /\ UNCHANGED <<world, t_min, t_max, sphere_hits, latest_hit, scatter_out,
                   max_depth, sub, color, hit_calls, renderVars>>

\* Vec3::random_in_unit_sphere breaks with p; ray_color, lines 56-59, up to the
\* recursive call.  A draw that makes target - point a vector whose squared
\* length is zero (on the grid) gives the next query a = 0 and NaN roots, and
\* is left out.
AcceptSample ==
    /\ pc = "sample"
    /\ \E p \in random_in_unit_sphere :
          LET point == latest_hit.val.point
              target == VAdd(VAdd(point, latest_hit.val.normal), unit(p))
          IN  /\ length_squared(VSub(target, point)) # 0
              /\ frames' = Append(frames, [ray |-> ray, depth |-> depth,
                                           hr |-> latest_hit])
              /\ ray' = Ray(point, VSub(target, point))
              /\ depth' = depth - 1
    /\ rnd' = NoDraw
    /\ pc' = "call"
    /\ UNCHANGED <<world, t_min, t_max, sphere_hits, latest_hit, scatter_out,
                   max_depth, sub, color, hit_calls, renderVars>>

\* A return of ray_color: to the invocation that waits for it, which returns
\* 0.5 * what it got (line 59), or out of the first invocation
RayColorReturn ==
    /\ pc = "return"
    /\ IF frames = <<>>
       THEN /\ pc' = "done"
            /\ UNCHANGED <<ray, depth, frames, sub, color, latest_hit>>
       ELSE LET caller == frames[Len(frames)]
            IN  /\ sub' = [some |-> TRUE, ray |-> ray, color |-> color]
                /\ color' = VScale(500, color)
                /\ ray' = caller.ray
                /\ depth' = caller.depth
                /\ latest_hit' = caller.hr
                /\ frames' = SubSeq(frames, 1, Len(frames) - 1)
                /\ pc' = "return"
    /\ UNCHANGED <<world, t_min, t_max, sphere_hits, scatterVars, max_depth,
                   hit_calls, renderVars>>

Next == RayColorCall \/ RejectSample \/ AcceptSample \/ RayColorReturn

\* The program runs on; a loop of random_in_unit_sphere is taken to accept.
Spec ==
    /\ ColorInit
    /\ [][Next]_vars
    /\ WF_vars(RayColorCall)
    /\ WF_vars(AcceptSample)
    /\ WF_vars(RayColorReturn)

\* C4: on a hit, ray_color calls scatter of the material of the surface hit:
\* when scatter returns nothing the result is black, otherwise the recursive
\* call was made on the scattered ray and the result is the attenuation times
\* what that call returned, component by component.
C4_ScatterOfHitMaterial ==
    (pc = "return" /\ sub.some) =>
        \E d \in DrawsOf(latest_hit.val.mat) :
            LET s == Scatter(latest_hit.val.mat, ray, latest_hit.val, d)
            IN  IF s.some
                THEN /\ sub.ray = s.val.scattered
                     /\ color = VMul(s.val.attenuation, sub.color)
                ELSE color = Black

\* C5: an invocation of ray_color with depth 0 returns black and does not ask
\* the scene for a hit.
C5_DepthZeroBlack ==
    [][(pc = "call" /\ depth = 0) =>
          (pc' = "return" /\ color' = Black /\ hit_calls' = hit_calls)]_vars

\* ray_color was called with depth 0 on a ray that hits the scene, and has
\* returned black without a query.
C5_Witness ==
    /\ pc = "done"
    /\ max_depth = 0
    /\ SliceHit(world, ray, t_min, t_max).some
    /\ color = Black
    /\ hit_calls = 0

\* C9: ray_color terminates.  The invocations in progress and the depth of
\* the innermost add up to the depth of the first call, so there are never
\* more than that many nested calls; an invocation whose recursive call has
\* returned makes no other; and the first invocation returns in the end.
C9_Terminates ==
    /\ [](Len(frames) + depth = max_depth)
    /\ [][pc = "return" => pc' \in {"return", "done"}]_vars
    /\ <>(pc = "done")

\* The chain of nested calls has reached depth 0 from the greatest depth.
C9_Witness ==
    /\ pc = "return"
    /\ depth = 0
    /\ max_depth = MaxDepth
    /\ Len(frames) = max_depth

(***************************************************************************)
(* main.rs: the per-pixel driver and to_ppm.  main collects one colour per *)
(* pixel (RenderPixel, the closure of the inner map), then to_ppm writes   *)
(* the header (ToPpmHeader) and one line per colour (ToPpmColor).          *)
(***************************************************************************)
\* samples_per_pixel (100 in main)
SamplesPerPixel == 2

\* <<image_width, image_height>> (400 x 225 in main)
ImageSizes == {<<2, 2>>, <<3, 2>>, <<2, 3>>}

\* What ray_color(camera.get_ray(u, v), world, max_depth) returns for a sample
SampleColors == {Black, White}

\* The samples of one pixel, up to their order: the sum that the loop over the
\* samples builds does not depend on it
SampleSeqs ==
    {s \in [1..SamplesPerPixel -> SampleColors] :
        \A k \in 1..(SamplesPerPixel - 1) : s[k][1] <= s[k + 1][1]}

\* a..b, b excluded, as the sequence a range yields
Range(a, b) == [k \in 1..(b - a) |-> a + k - 1]

\* Iterator::rev
Rev(q) == [k \in 1..Len(q) |-> q[Len(q) + 1 - k]]

\* The rows in the order they are yielded, had the range not been reversed.
RowsAscending(height) == Range(0, height)

\* (0..image_height).rev()
RowsOf(height) == Rev(Range(0, height))

\* (0..image_width)
ColsOf(width) == Range(0, width)

RECURSIVE VSum(_)
VSum(q) == IF q = <<>> THEN Black ELSE VAdd(VSum(Tail(q)), Head(q))

\* to_ppm, lines 27 and 33-35: one channel: scale, gamma 2, clamp
GammaClamp(c, samples_per_pixel) ==
    LET scale == Div(F(1), F(samples_per_pixel))
    IN  Clamp(Sqrt(Mul(c, scale)), 0, 999)

\* to_ppm, lines 38-40: as u8
AsU8(c) == Mul(c, 255999) \div Scale

\* to_ppm, lines 30-43: the line written for one colour
PpmLine(c, samples_per_pixel) ==
    << AsU8(GammaClamp(c[1], samples_per_pixel)),
       AsU8(GammaClamp(c[2], samples_per_pixel)),
       AsU8(GammaClamp(c[3], samples_per_pixel)) >>

RenderInit ==
    /\ pc = "render"
    /\ world = <<>>
    /\ ray = Ray(Vec3(0, 0, 0), Vec3(0, 0, -1000))
    /\ t_min = 1
    /\ t_max = INFINITY
    /\ sphere_hits = <<>>
    /\ latest_hit = None
    /\ rnd = NoDraw
    /\ scatter_out = None
    /\ ColorIdle
    /\ \E size \in ImageSizes :
          /\ image_width = size[1]
          /\ image_height = size[2]
          /\ rows = RowsOf(size[2])
          /\ cols = ColsOf(size[1])
    /\ img = <<>>
    /\ ppm = <<>>
    /\ SampleIdle

\* main, lines 99-118: the closures of the two maps, for the next pixel of
\* the flattened iterator; collect appends what the closure returns
RenderPixel ==
    /\ pc = "render"
    /\ rows # <<>>
    /\ \E samples \in SampleSeqs :
          img' = Append(img, [i |-> Head(cols), j |-> Head(rows),
                              samples |-> samples, color |-> VSum(samples)])
    /\ IF Tail(cols) # <<>>
       THEN cols' = Tail(cols) /\ rows' = rows
       ELSE cols' = ColsOf(image_width) /\ rows' = Tail(rows)
    /\ UNCHANGED <<pc, world, ray, t_min, t_max, sphere_hits, latest_hit,
                   scatterVars, colorVars, image_width, image_height, ppm,
                   sampleVars>>

\* to_ppm, lines 23-25: called with the collected colours; the header
ToPpmHeader ==
    /\ pc = "render"
    /\ rows = <<>>
    /\ ppm' = <<<<image_width, image_height, 255>>>>
    /\ pc' = "encode"
    /\ UNCHANGED <<world, ray, t_min, t_max, sphere_hits, latest_hit,
                   scatterVars, colorVars, image_width, image_height, rows,
                   cols, img, sampleVars>>

\* to_ppm, lines 29-44: one turn of the loop over the colours
ToPpmColor ==
    /\ pc = "encode"
    /\ IF Len(ppm) - 1 < Len(img)
       THEN /\ ppm' = Append(ppm, PpmLine(img[Len(ppm)].color, SamplesPerPixel))
            /\ pc' = pc
       ELSE /\ pc' = "written"
            /\ ppm' = ppm
    /\ UNCHANGED <<world, ray, t_min, t_max, sphere_hits, latest_hit,
                   scatterVars, colorVars, image_width, image_height, rows,
                   cols, img, sampleVars>>

RenderNext == RenderPixel \/ ToPpmHeader \/ ToPpmColor

SpecRender == RenderInit /\ [][RenderNext]_vars

\* The colours are with to_ppm: main has collected them all.
Handed == pc \in {"encode", "written"}

\* The element at position k (from 0) is of pixel (k mod width,
\* height - 1 - k div width), and there are width x height elements.
ScanOrder ==
    /\ Len(img) = image_width * image_height
    /\ \A k \in 1..Len(img) :
          /\ img[k].i = (k - 1) % image_width
          /\ img[k].j = image_height - 1 - ((k - 1) \div image_width)

\* The colour of a pixel after the average over its samples and gamma 2
PostGamma(samples) ==
    LET mean == VScale(Div(F(1), F(Len(samples))), VSum(samples))
    IN  <<Sqrt(mean[1]), Sqrt(mean[2]), Sqrt(mean[3])>>

\* C8 as stated: the colours handed to the encoder are width x height, in
\* scan order from row height-1 down to row 0 and from column 0 up, and each
\* is the post-average, post-gamma colour of its pixel.
C8_FinalColorsInScanOrder ==
    Handed =>
        /\ ScanOrder
        /\ \A k \in 1..Len(img) : img[k].color = PostGamma(img[k].samples)

\* C8 amended: the colours handed to to_ppm are width x height, in scan order
\* from row height-1 down to row 0 and from column 0 up; each is the sum of
\* the samples_per_pixel samples of its pixel, and to_ppm averages, gamma
\* corrects and clamps it for the line it writes.
C8_SumsInScanOrder ==
    Handed =>
        /\ ScanOrder
        /\ \A k \in 1..Len(img) :
              /\ Len(img[k].samples) = SamplesPerPixel
              /\ img[k].color = VSum(img[k].samples)
        /\ \A k \in 2..Len(ppm) :
              \A c \in 1..3 :
                  ppm[k][c] =
                      AsU8(Clamp(PostGamma(img[k - 1].samples)[c], 0, 999))

\* A whole image of more than one row and column is written, with a pixel
\* whose sum is not its final colour.
C8_Witness ==
    /\ pc = "written"
    /\ image_width > 2
    /\ image_height > 1
    /\ Len(ppm) = 1 + image_width * image_height
    /\ \E k \in 1..Len(img) : img[k].color # PostGamma(img[k].samples)

(***************************************************************************)
(* cam.rs: the camera, and the loop over the samples of a pixel in main.   *)
(***************************************************************************)
\* CameraBuilder::default
CameraBuilderDefault ==
    [vfov |-> F(90), aspect_ratio |-> Div(F(16), F(9)), aperture |-> F(1),
     focus_dist |-> F(1), look_from |-> Vec3(0, 0, 0),
     look_at |-> Vec3(0, 0, F(1)), vup |-> Vec3(0, F(1), 0)]

\* (vfov.to_radians() / 2.0).tan(), for the field of view main uses
TanHalf(vfov) == CASE vfov = F(90) -> F(1)

\* CameraBuilder::build
build(b) ==
    LET h == TanHalf(b.vfov)
        viewport_height == Mul(F(2), h)
        viewport_width == Mul(b.aspect_ratio, viewport_height)
        w == unit(VSub(b.look_from, b.look_at))
        u == unit(cross(b.vup, w))
        v == cross(w, u)
        horizontal == VScale(Mul(b.focus_dist, viewport_width), u)
        vertical == VScale(Mul(b.focus_dist, viewport_height), v)
    IN  [lens_radius |-> Div(b.aperture, F(2)),
         origin |-> b.look_from,
         horizontal |-> horizontal,
         vertical |-> vertical,
         u |-> u, v |-> v, w |-> w,
         lower_left_corner |->
             VSub(VSub(VSub(b.look_from, VDiv(horizontal, F(2))),
                       VDiv(vertical, F(2))),
                  VScale(b.focus_dist, w))]

\* Vec3::random_in_unit_disk, which get_ray calls and vec3.rs does not define:
\* a random point of the unit disk of the x-y plane
random_in_unit_disk ==
    {p \in {Vec3(x, y, 0) : x \in SignedDraws, y \in SignedDraws} :
        length_squared(p) < F(1)}

\* Camera::get_ray, with the point of the disk it draws
get_ray(cam, u, v, disk) ==
    LET rd == VScale(cam.lens_radius, disk)
        offset == VAdd(VScale(rd[1], cam.u), VScale(rd[2], cam.v))
    IN  Ray(VAdd(cam.origin, offset),
            VSub(VSub(VAdd(VAdd(cam.lower_left_corner, VScale(u, cam.horizontal)),
                           VScale(v, cam.vertical)),
                      cam.origin),
                 offset))

\* What ray_color returns for a sample, where the coordinates of the sample
\* are what is followed
DriverColors == {White}

SampleInit ==
    /\ pc = "sample"
    /\ world = <<>>
    /\ ray = Ray(Vec3(0, 0, 0), Vec3(0, 0, -1000))
    /\ t_min = 1
    /\ t_max = INFINITY
    /\ sphere_hits = <<>>
    /\ latest_hit = None
    /\ rnd = NoDraw
    /\ scatter_out = None
    /\ ColorIdle
    /\ \E size \in ImageSizes :
          /\ image_width = size[1]
          /\ image_height = size[2]
          /\ rows = RowsOf(size[2])
          /\ cols = ColsOf(size[1])
    /\ img = <<>>
    /\ ppm = <<>>
    /\ camera = build(CameraBuilderDefault)
    /\ pixel = [samples |-> <<>>, color |-> Black]
    /\ get_ray_call = [some |-> FALSE]

\* main, lines 108-114: one turn of the loop over the samples of the pixel
\* (i, j) = (Head(cols), Head(rows))
SamplePixel ==
    /\ pc = "sample"
    /\ rows # <<>>
    /\ Len(pixel.samples) < SamplesPerPixel
    /\ \E ru \in UniformDraws, rv \in UniformDraws, disk \in random_in_unit_disk,
          c \in DriverColors :
          LET u == Div(F(Head(cols)) + ru, F(image_width - 1))
              v == Div(F(Head(rows)) + rv, F(image_height - 1))
          IN  /\ get_ray_call' = [some |-> TRUE, i |-> Head(cols),
                                  j |-> Head(rows), u |-> u, v |-> v]
              /\ ray' = get_ray(camera, u, v, disk)
              /\ pixel' = [samples |-> Append(pixel.samples, c),
                           color |-> VAdd(pixel.color, c)]
    /\ UNCHANGED <<pc, world, t_min, t_max, sphere_hits, latest_hit,
                   scatterVars, colorVars, image_width, image_height, rows,
                   cols, img, ppm, camera>>

\* main, lines 104-106 and 116-120: the closure returns the colour of the
\* pixel, which is collected, and the iterators yield the next pixel
PixelDone ==
    /\ pc = "sample"
    /\ rows # <<>>
    /\ Len(pixel.samples) = SamplesPerPixel
    /\ img' = Append(img, [i |-> Head(cols), j |-> Head(rows),
                           samples |-> pixel.samples, color |-> pixel.color])
    /\ pixel' = [samples |-> <<>>, color |-> Black]
    /\ IF Tail(cols) # <<>>
       THEN cols' = Tail(cols) /\ rows' = rows
       ELSE cols' = ColsOf(image_width) /\ rows' = Tail(rows)
    /\ UNCHANGED <<pc, world, ray, t_min, t_max, sphere_hits, latest_hit,
                   scatterVars, colorVars, image_width, image_height, ppm,
                   camera, get_ray_call>>

SampleNext == SamplePixel \/ PixelDone

SpecSample == SampleInit /\ [][SampleNext]_vars

\* C11: for every pixel (i, j) of the image and every jitter in [0, 1), the
\* coordinates main calls Camera::get_ray with both lie in [0, 1].
C11_GetRayInUnitSquare ==
    get_ray_call.some =>
        /\ 0 <= get_ray_call.u /\ get_ray_call.u <= F(1)
        /\ 0 <= get_ray_call.v /\ get_ray_call.v <= F(1)

====
